---- MODULE Spec2Model ----
(***************************************************************************)
(* Model of the lead-qualification tools of qualification-agent-python     *)
(* (enrich_lead, calculate_qualification_score,                            *)
(* make_qualification_decision) as they are run in sequence by             *)
(* MockQualificationAgent.qualify and test_qualification_logic, and of the *)
(* capture flow of leadcaptureagent (extraction adapters,                  *)
(* LeadCaptureAgent.capture, LeadRepository) serving concurrent requests.  *)
(*                                                                         *)
(* Python values are tagged records [t, v]: t is the Python type, v the    *)
(* value.  A Python str on which the code works character by character     *)
(* (email, budget, phone) is a sequence of one-character strings; a str    *)
(* that the code only compares with literals (source, the fixed output     *)
(* texts) is a TLA+ string.                                                *)
(***************************************************************************)
EXTENDS Integers, Sequences, FiniteSets, TLC

VARIABLES
    pc,               \* "start", "enriched", "scored", "decided" or "raised"
    lead_data,        \* the lead record the tools are given
    enrichment,       \* what enrich_lead returned
    enrichment_data,  \* the enrichment_data argument of the score tool
    score,            \* what calculate_qualification_score returned
    threshold,        \* the require_human_review_threshold argument
    decision,         \* what make_qualification_decision returned
    error,            \* the exception that ended the run, or "none"
    response_str,     \* str(response) of the agent in qualify_lead
    qualify_result,   \* what qualify_lead returned
    llm,              \* the class of the adapter the capture agent was built with
    api_key,          \* LLMClient.api_key is set
    upstream,         \* what the upstream model (or the input text) holds in this run
    requests,         \* the POST /leads requests: position, locals, outcome
    heap,             \* the Python list objects; heap[1] is LeadRepository._leads
    handles,          \* the lists that callers of LeadRepository.list() hold
    stdout,           \* the ids printed in "EVENT: lead.created" lines
    uuids             \* the number of uuid4() values drawn so far

toolVars ==
    <<pc, lead_data, enrichment, enrichment_data, score, threshold, decision, error,
      response_str, qualify_result>>

captureVars == <<llm, api_key, upstream, requests, heap, handles, stdout, uuids>>

vars == <<toolVars, captureVars>>

----------------------------------------------------------------------------
(* Python values *)

PyNone == [t |-> "None", v |-> <<>>]
\* a key that the dict does not hold
ABSENT == [t |-> "absent", v |-> <<>>]
PyStr(s) == [t |-> "str", v |-> s]
PyInt(n) == [t |-> "int", v |-> n]
PyBool(b) == [t |-> "bool", v |-> b]
PyDict(r) == [t |-> "dict", v |-> r]

\* bool(x) as Python evaluates it in `if x`, `not x`, `x and y`
Truthy(x) ==
    CASE x.t = "None" -> FALSE
      [] x.t = "absent" -> FALSE
      [] x.t = "str" -> Len(x.v) > 0
      [] x.t = "int" -> x.v # 0
      [] x.t = "bool" -> x.v
      [] x.t = "dict" -> \E k \in DOMAIN x.v : x.v[k] # ABSENT

\* d.get(k): None when the key is missing
Get(d, k) == IF d[k] = ABSENT THEN PyNone ELSE d[k]

\* d.get(k, default)
GetDefault(d, k, default) == IF d[k] = ABSENT THEN default ELSE d[k]

----------------------------------------------------------------------------
(* Characters and strings *)

DecimalDigits == <<"0", "1", "2", "3", "4", "5", "6", "7", "8", "9">>

LowerChars == <<"a", "b", "c", "d", "e", "f", "g", "h", "i", "j", "k", "l", "m",
                "n", "o", "p", "q", "r", "s", "t", "u", "v", "w", "x", "y", "z">>

UpperChars == <<"A", "B", "C", "D", "E", "F", "G", "H", "I", "J", "K", "L", "M",
                "N", "O", "P", "Q", "R", "S", "T", "U", "V", "W", "X", "Y", "Z">>

Range(s) == {s[i] : i \in DOMAIN s}

IndexIn(s, c) == CHOOSE i \in DOMAIN s : s[i] = c

\* str.isdigit for one character: the decimal digits, and digit characters
\* such as the superscript two that int() does not accept
IsDigit(c) == c \in Range(DecimalDigits) \cup {"²"}

\* filter(str.isdigit, s) joined back to a str
RECURSIVE FilterDigits(_)
FilterDigits(s) ==
    IF s = <<>> THEN <<>>
    ELSE IF IsDigit(Head(s)) THEN <<Head(s)>> \o FilterDigits(Tail(s))
         ELSE FilterDigits(Tail(s))

\* int(s) raises ValueError on the empty string and on a non-decimal digit
IntParses(s) == Len(s) > 0 /\ \A i \in DOMAIN s : s[i] \in Range(DecimalDigits)

\* int(s) for a string of decimal digits
RECURSIVE IntOfDigits(_)
IntOfDigits(s) ==
    IF s = <<>> THEN 0
    ELSE 10 * IntOfDigits(SubSeq(s, 1, Len(s) - 1)) + (IndexIn(DecimalDigits, s[Len(s)]) - 1)

\* s.split(sep): the pieces of s between the occurrences of the character sep
RECURSIVE Split(_, _)
Split(s, sep) ==
    IF \A i \in DOMAIN s : s[i] # sep THEN <<s>>
    ELSE LET i == CHOOSE j \in DOMAIN s : s[j] = sep /\ \A k \in 1..(j - 1) : s[k] # sep
         IN <<SubSeq(s, 1, i - 1)>> \o Split(SubSeq(s, i + 1, Len(s)), sep)

IsCased(c) == c \in Range(LowerChars) \cup Range(UpperChars)

ToUpper(c) == IF c \in Range(LowerChars) THEN UpperChars[IndexIn(LowerChars, c)] ELSE c

ToLower(c) == IF c \in Range(UpperChars) THEN LowerChars[IndexIn(UpperChars, c)] ELSE c

\* str.title(): a cased character is upper-cased when it follows an uncased
\* one (or starts the string) and lower-cased otherwise
RECURSIVE TitleFrom(_, _)
TitleFrom(s, prev_cased) ==
    IF s = <<>> THEN <<>>
    ELSE <<IF prev_cased THEN ToLower(Head(s)) ELSE ToUpper(Head(s))>>
         \o TitleFrom(Tail(s), IsCased(Head(s)))

\* Title with only the first character of the string upper-cased
\* (str.capitalize)
TitleCapitalize(s) ==
    IF s = <<>> THEN <<>>
    ELSE <<ToUpper(Head(s))>> \o [i \in 1..(Len(s) - 1) |-> ToLower(s[i + 1])]

Title(s) == TitleFrom(s, FALSE)

----------------------------------------------------------------------------
(* Bounds of the model *)

\* years_in_city ranges over -1..MaxYears
MaxYears == 6
\* length of the budget strings generated over BudgetChars
MaxBudgetLen == 2
\* values datetime.now() takes
MaxClock == 2
\* total_score of the score records given directly to the decision tool
MaxTotal == 100
\* number of concerns of those score records
MaxConcerns == 3

----------------------------------------------------------------------------
(* Inputs: the strings of the tests and scenarios, character by character *)

gmail_com == <<"g", "m", "a", "i", "l", ".", "c", "o", "m">>
yahoo_com == <<"y", "a", "h", "o", "o", ".", "c", "o", "m">>
hotmail_com == <<"h", "o", "t", "m", "a", "i", "l", ".", "c", "o", "m">>
outlook_com == <<"o", "u", "t", "l", "o", "o", "k", ".", "c", "o", "m">>
aol_com == <<"a", "o", "l", ".", "c", "o", "m">>
Gmail_com_mixed == <<"G", "m", "a", "i", "l", ".", "c", "o", "m">>
techstartup_com == <<"t", "e", "c", "h", "s", "t", "a", "r", "t", "u", "p", ".", "c", "o", "m">>
fortune500_com == <<"f", "o", "r", "t", "u", "n", "e", "5", "0", "0", ".", "c", "o", "m">>
evil_com == <<"e", "v", "i", "l", ".", "c", "o", "m">>
local_test == <<"t", "e", "s", "t">>
local_browsing == <<"b", "r", "o", "w", "s", "i", "n", "g">>
local_u == <<"u">>
local_sarah_johnson == <<"s", "a", "r", "a", "h", ".", "j", "o", "h", "n", "s", "o", "n">>
local_ceo == <<"c", "e", "o">>
phone_number == <<"+", "1", "-", "5", "5", "5", "-", "9", "8", "7", "-", "6", "5", "4", "3">>
b50k == <<"$", "5", "0", ",", "0", "0", "0">>
b99999 == <<"$", "9", "9", ",", "9", "9", "9">>
b100k == <<"$", "1", "0", "0", ",", "0", "0", "0">>
b199999 == <<"$", "1", "9", "9", ",", "9", "9", "9">>
b200k == <<"$", "2", "0", "0", ",", "0", "0", "0">>
b250k == <<"$", "2", "5", "0", ",", "0", "0", "0">>
b299999 == <<"$", "2", "9", "9", ",", "9", "9", "9">>
b300k == <<"$", "3", "0", "0", ",", "0", "0", "0">>
b450k == <<"$", "4", "5", "0", ",", "0", "0", "0">>
b499999 == <<"$", "4", "9", "9", ",", "9", "9", "9">>
b500k == <<"$", "5", "0", "0", ",", "0", "0", "0">>
b1200k == <<"$", "1", ",", "2", "0", "0", ",", "0", "0", "0">>
b450k_plain == <<"4", "5", "0", "0", "0", "0">>
b450k_cents == <<"$", "4", "5", "0", ",", "0", "0", "0", ".", "0", "0">>
b_tbd == <<"t", "b", "d">>
my_firm_io == <<"m", "y", "-", "f", "i", "r", "m", ".", "i", "o">>
local_young_professional == <<"y", "o", "u", "n", "g", ".", "p", "r", "o", "f", "e", "s", "s", "i", "o", "n", "a", "l">>
b_250k_word == <<"2", "5", "0", "k">>

----------------------------------------------------------------------------
(* Inputs: the lead records and the arguments the tools are called with *)

EmailOf(local, domain) == local \o <<"@">> \o domain

\* the pairs (local part, domain) the well-formed emails are built from
EmailParts ==
    {<<local_test, gmail_com>>, <<local_browsing, yahoo_com>>, <<local_u, hotmail_com>>,
     <<local_u, outlook_com>>, <<local_u, aol_com>>, <<local_u, Gmail_com_mixed>>,
     <<local_sarah_johnson, techstartup_com>>, <<local_ceo, fortune500_com>>,
     <<local_u, my_firm_io>>, <<local_young_professional, gmail_com>>}

\* an email with no '@' and one with two
EmailNoAt == <<"n", "o", "a", "t", "s", "i", "g", "n">>

EmailTwoAt == EmailOf(local_u, EmailOf(gmail_com, evil_com))

Emails == {EmailOf(p[1], p[2]) : p \in EmailParts} \cup {EmailNoAt, EmailTwoAt}

CoreEmails == {EmailOf(local_test, gmail_com), EmailOf(local_sarah_johnson, techstartup_com)}

Phones == {ABSENT, PyNone, PyStr(phone_number)}

BudgetChars == {"$", "7", "k", "²"}

RECURSIVE SeqsUpTo(_, _)
SeqsUpTo(S, n) ==
    IF n = 0 THEN {<<>>}
    ELSE LET shorter == SeqsUpTo(S, n - 1)
         IN shorter \cup {Append(s, c) : s \in {x \in shorter : Len(x) = n - 1}, c \in S}

\* the budget strings of the tests, one on each side of every tier
\* boundary, a currency string with cents, and strings with no number
ScenarioBudgets ==
    {b50k, b99999, b100k, b199999, b200k, b250k, b299999, b300k, b450k, b499999, b500k,
     b1200k, b450k_plain, b450k_cents, b_tbd, b_250k_word}

BudgetStrings == ScenarioBudgets \cup SeqsUpTo(BudgetChars, MaxBudgetLen)

BudgetNumbers == {0, 1, 99999, 100000, 199999, 200000, 299999, 300000, 499999, 500000}

Budgets == {ABSENT, PyNone} \cup {PyStr(s) : s \in BudgetStrings}
           \cup {PyInt(n) : n \in BudgetNumbers}

CoreBudgets == {ABSENT, PyNone, PyStr(b50k), PyStr(b450k), PyStr(b1200k), PyStr(b_tbd),
                PyInt(200000)}

Years == {ABSENT, PyNone, PyStr(<<"5">>)} \cup {PyInt(n) : n \in (0 - 1)..MaxYears}

CoreYears == {ABSENT, PyNone, PyInt(0), PyInt(1), PyInt(2), PyInt(5)}

Sources == {ABSENT, PyNone, PyStr("direct"), PyStr("referral"), PyStr("property-listing"),
            PyStr("google-ads"), PyStr("facebook-ads"), PyStr("organic"), PyStr("Direct")}

CoreSources == {ABSENT, PyStr("direct"), PyStr("google-ads"), PyStr("organic")}

\* lead_data, with the keys that the tools read
Lead(e, p, b, y, s) ==
    [email |-> PyStr(e), phone |-> p, budget |-> b, years_in_city |-> y, source |-> s]

\* the three leads of test_multiple_clean; the last one as a record without
\* the keys phone and years_in_city, and as the record that qualify_lead
\* builds from the LeadInput, where both keys hold None
HighValueExecutive ==
    Lead(EmailOf(local_ceo, fortune500_com), PyStr(phone_number), PyStr(b1200k), PyInt(8),
         PyStr("direct"))

FirstTimeBuyer ==
    Lead(EmailOf(local_young_professional, gmail_com), PyStr(phone_number), PyStr(b250k),
         PyInt(2), PyStr("google-ads"))

UnqualifiedLead ==
    Lead(EmailOf(local_browsing, yahoo_com), ABSENT, PyStr(b50k), ABSENT, PyStr("organic"))

UnqualifiedLeadFromInput ==
    Lead(EmailOf(local_browsing, yahoo_com), PyNone, PyStr(b50k), PyNone, PyStr("organic"))

ScenarioLeads == {HighValueExecutive, FirstTimeBuyer, UnqualifiedLead, UnqualifiedLeadFromInput}

Leads ==
    ScenarioLeads
    \cup {Lead(e, p, b, y, s) : e \in CoreEmails, p \in Phones, b \in CoreBudgets,
                           y \in CoreYears, s \in CoreSources}
    \cup {Lead(e, ABSENT, PyStr(b50k), ABSENT, PyStr("organic")) : e \in Emails}
    \cup {Lead(EmailOf(local_test, gmail_com), p, b, y, PyStr("organic")) :
              p \in Phones, b \in Budgets, y \in {ABSENT, PyInt(5)}}
    \cup {Lead(EmailOf(local_test, gmail_com), PyNone, PyStr(b250k), y, s) :
              y \in Years, s \in Sources}

----------------------------------------------------------------------------
(* enrich_lead *)

linkedin_prefix ==
    <<"h", "t", "t", "p", "s", ":", "/", "/", "l", "i", "n", "k", "e", "d", "i", "n",
      ".", "c", "o", "m", "/", "i", "n", "/">>

\* the literal list of line 61, with a fifth webmail domain added
ConsumerDomainsFive == {gmail_com, yahoo_com, hotmail_com, outlook_com, aol_com}

\* the literal list of line 61
ConsumerDomains == {gmail_com, yahoo_com, hotmail_com, outlook_com}

\* email.split('@')[1] raises IndexError when the email holds no '@'
EnrichRaises(email) == Len(Split(email, "@")) < 2

\* the key error is set only by the fallback record of safe_tool
EnrichmentDict(email, is_corporate, has_stable, company_info, linkedin_profile, err) ==
    PyDict([email |-> email,
            is_corporate_email |-> is_corporate,
            estimated_income |-> IF is_corporate = ABSENT THEN ABSENT
                                 ELSE IF is_corporate.v THEN PyStr("$75,000-$125,000")
                                 ELSE PyStr("$50,000-$100,000"),
            credit_indicators |-> IF has_stable = ABSENT THEN ABSENT
                                  ELSE PyDict([has_stable_employment |-> has_stable,
                                               likely_homeowner |-> PyBool(FALSE)]),
            company_info |-> company_info,
            linkedin_profile |-> linkedin_profile,
            error |-> err])

enrich_lead(email) ==
    LET domain == Split(email, "@")[2]
        is_corporate == domain \notin ConsumerDomains
    IN EnrichmentDict(
           PyStr(email), PyBool(is_corporate), PyBool(is_corporate),
           IF is_corporate
           THEN PyDict([name |-> PyStr(Title(Split(domain, ".")[1])),
                        industry |-> PyStr("Technology"),
                        size |-> PyStr("100-500")])
           ELSE ABSENT,
           IF is_corporate THEN PyStr(linkedin_prefix \o Split(email, "@")[1]) ELSE ABSENT,
           ABSENT)

EmptyDict == EnrichmentDict(ABSENT, ABSENT, ABSENT, ABSENT, ABSENT, ABSENT)

\* what the score tool can be given as enrichment_data: the result of
\* enrich_lead, nothing, an empty dict, the fallback record of safe_tool (no
\* credit_indicators), and a record of a consumer address in stable employment
EnrichmentArgs(enriched) ==
    {enriched, PyNone, EmptyDict,
     EnrichmentDict(lead_data.email, ABSENT, ABSENT, ABSENT, ABSENT, PyStr("IndexError")),
     EnrichmentDict(lead_data.email, PyBool(FALSE), PyBool(TRUE), ABSENT, ABSENT, ABSENT)}

----------------------------------------------------------------------------
(* calculate_qualification_score *)

Min(a, b) == IF a <= b THEN a ELSE b


\* BudgetTier with > in place of >=
BudgetTierStrict(budget_num) ==
    IF budget_num > 500000 THEN 20
    ELSE IF budget_num > 300000 THEN 15
    ELSE IF budget_num > 200000 THEN 10
    ELSE IF budget_num > 100000 THEN 5
    ELSE 0

BudgetTier(budget_num) ==
    IF budget_num >= 500000 THEN 20
    ELSE IF budget_num >= 300000 THEN 15
    ELSE IF budget_num >= 200000 THEN 10
    ELSE IF budget_num >= 100000 THEN 5
    ELSE 0


\* BudgetScore with int() applied to the budget string as it is, digits not
\* filtered out first
BudgetScoreUnfiltered(ld) ==
    LET budget == Get(ld, "budget")
        parses == IF budget.t = "str" THEN IntParses(budget.v) ELSE budget.t = "int"
        budget_num == IF budget.t = "str" THEN IntOfDigits(budget.v) ELSE budget.v
        budget_score == IF Truthy(budget)
                        THEN 10 + (IF parses THEN BudgetTier(budget_num) ELSE 5)
                        ELSE 0
    IN Min(budget_score, 30)

\* BudgetScore with nothing added when the budget cannot be parsed
BudgetScoreNoFailureBonus(ld) ==
    LET budget == Get(ld, "budget")
        digits == IF budget.t = "str" THEN FilterDigits(budget.v) ELSE <<>>
        parses == IF budget.t = "str" THEN IntParses(digits) ELSE budget.t = "int"
        budget_num == IF budget.t = "str" THEN IntOfDigits(digits) ELSE budget.v
        budget_score == IF Truthy(budget)
                        THEN 10 + (IF parses THEN BudgetTier(budget_num) ELSE 0)
                        ELSE 0
    IN Min(budget_score, 30)

\* Budget Score (0-30); a budget that is neither str nor int is not modelled
BudgetScore(ld) ==
    LET budget == Get(ld, "budget")
        digits == IF budget.t = "str" THEN FilterDigits(budget.v) ELSE <<>>
        parses == IF budget.t = "str" THEN IntParses(digits) ELSE budget.t = "int"
        budget_num == IF budget.t = "str" THEN IntOfDigits(digits) ELSE budget.v
        budget_score == IF Truthy(budget)
                        THEN 10 + (IF parses THEN BudgetTier(budget_num) ELSE 5)
                        ELSE 0
    IN Min(budget_score, 30)

high_intent_sources == {PyStr("direct"), PyStr("referral"), PyStr("property-listing")}

medium_intent_sources == {PyStr("google-ads"), PyStr("facebook-ads")}


\* IntentScore with 'direct' as the default of a missing source
IntentScoreDefaultDirect(ld) ==
    LET source == GetDefault(ld, "source", PyStr("direct"))
    IN IF source \in high_intent_sources THEN 20
       ELSE IF source \in medium_intent_sources THEN 15
       ELSE 10

\* IntentScore with 0 for every other source
IntentScoreNoFloor(ld) ==
    LET source == GetDefault(ld, "source", PyStr("organic"))
    IN IF source \in high_intent_sources THEN 20
       ELSE IF source \in medium_intent_sources THEN 15
       ELSE 0

\* Intent Score (0-25)
IntentScore(ld) ==
    LET source == GetDefault(ld, "source", PyStr("organic"))
    IN IF source \in high_intent_sources THEN 20
       ELSE IF source \in medium_intent_sources THEN 15
       ELSE 10

\* `years_in_city >= 5` raises TypeError unless years_in_city is a number
YearsRaises(ld) == GetDefault(ld, "years_in_city", PyInt(0)).t # "int"


\* YearsScore with three independent ifs in place of the if/elif chain
YearsScoreStacked(ld) ==
    LET years_in_city == GetDefault(ld, "years_in_city", PyInt(0)).v
    IN (IF years_in_city >= 5 THEN 15 ELSE 0)
       + (IF years_in_city >= 2 THEN 10 ELSE 0)
       + (IF years_in_city >= 1 THEN 5 ELSE 0)

YearsScore(ld) ==
    LET years_in_city == GetDefault(ld, "years_in_city", PyInt(0)).v
    IN IF years_in_city >= 5 THEN 15
       ELSE IF years_in_city >= 2 THEN 10
       ELSE IF years_in_city >= 1 THEN 5
       ELSE 0


\* StableEmployment read from is_corporate_email
StableEmploymentFromCorporate(ed) ==
    IF ~Truthy(ed) THEN FALSE ELSE Truthy(Get(ed.v, "is_corporate_email"))

\* enrichment_data and enrichment_data.get('credit_indicators', {}).get('has_stable_employment')
StableEmployment(ed) ==
    IF ~Truthy(ed) THEN FALSE
    ELSE LET credit == ed.v["credit_indicators"]
         IN IF credit = ABSENT THEN FALSE
            ELSE Truthy(Get(credit.v, "has_stable_employment"))

\* Readiness Score (0-25)
ReadinessScore(ld, ed) == YearsScore(ld) + (IF StableEmployment(ed) THEN 10 ELSE 0)

\* Engagement Score (0-20)
EngagementScore == 20


\* Confidence with "low" as soon as either of the two is missing
ConfidenceEither(ld, ed) ==
    LET confidence == IF Truthy(ed) /\ Truthy(Get(ld, "budget")) THEN "high" ELSE "medium"
    IN IF ~Truthy(Get(ld, "budget")) \/ ~Truthy(ed) THEN "low" ELSE confidence

Confidence(ld, ed) ==
    LET confidence == IF Truthy(ed) /\ Truthy(Get(ld, "budget")) THEN "high" ELSE "medium"
    IN IF ~Truthy(Get(ld, "budget")) /\ ~Truthy(ed) THEN "low" ELSE confidence

Strengths(budget_score, intent_score, readiness_score) ==
    (IF budget_score >= 20 THEN <<"Strong budget alignment">> ELSE <<>>)
    \o (IF intent_score >= 15 THEN <<"High purchase intent from quality source">> ELSE <<>>)
    \o (IF readiness_score >= 15 THEN <<"Stable and ready to move forward">> ELSE <<>>)

\* Concerns with a third concern, on the missing years_in_city
ConcernsWithYears(ld, budget_score) ==
    (IF budget_score < 15 THEN <<"Budget may be insufficient">> ELSE <<>>)
    \o (IF ~Truthy(Get(ld, "phone")) THEN <<"No phone number provided">> ELSE <<>>)
    \o (IF ~Truthy(Get(ld, "years_in_city")) THEN <<"Short time in city">> ELSE <<>>)

Concerns(ld, budget_score) ==
    (IF budget_score < 15 THEN <<"Budget may be insufficient">> ELSE <<>>)
    \o (IF ~Truthy(Get(ld, "phone")) THEN <<"No phone number provided">> ELSE <<>>)

FastTrack ==
    <<"Fast-track to sales team", "Schedule property viewing within 48 hours",
      "Assign senior sales agent">>

Nurture ==
    <<"Nurture with targeted content", "Schedule discovery call",
      "Send market analysis report">>

LongTermNurture ==
    <<"Add to long-term nurture campaign", "Send educational content series",
      "Re-evaluate in 3 months">>

\* Recommendations with the fast-track list from 60 on
RecommendationsFastFrom60(total_score) ==
    IF total_score >= 60 THEN FastTrack
    ELSE IF total_score >= 50 THEN Nurture
    ELSE LongTermNurture

Recommendations(total_score) ==
    IF total_score >= 70 THEN FastTrack
    ELSE IF total_score >= 50 THEN Nurture
    ELSE LongTermNurture

\* the f-string, as its literal pieces and the two values it embeds
Reasoning(total_score, confidence) ==
    <<"Lead scored ", total_score, "/100 with ", confidence, " confidence. ",
      IF total_score >= 70
      THEN "Highly qualified lead ready for immediate sales engagement."
      ELSE IF total_score >= 50
      THEN "Moderate qualification, needs nurturing before sales."
      ELSE "Low qualification, requires long-term nurturing.">>

\* the returned dict, when no comparison raises
calculate_qualification_score(ld, ed) ==
    LET budget_score == BudgetScore(ld)
        intent_score == IntentScore(ld)
        readiness_score == ReadinessScore(ld, ed)
        engagement_score == EngagementScore
        total_score == budget_score + intent_score + readiness_score + engagement_score
        confidence == Confidence(ld, ed)
    IN [budget_score |-> budget_score,
        intent_score |-> intent_score,
        readiness_score |-> readiness_score,
        engagement_score |-> engagement_score,
        total_score |-> total_score,
        confidence |-> confidence,
        reasoning |-> Reasoning(total_score, confidence),
        strengths |-> Strengths(budget_score, intent_score, readiness_score),
        concerns |-> Concerns(ld, budget_score),
        recommendations |-> Recommendations(total_score)]

----------------------------------------------------------------------------
(* make_qualification_decision *)


\* Status with > 70 in place of >= 70
StatusStrict(s) ==
    IF s.total_score > 70 /\ s.confidence = "high" THEN "qualified"
    ELSE IF s.total_score < 40 THEN "not_qualified"
    ELSE "needs_review"

Status(s) ==
    IF s.total_score >= 70 /\ s.confidence = "high" THEN "qualified"
    ELSE IF s.total_score < 40 THEN "not_qualified"
    ELSE "needs_review"


\* RequiresHumanReview without the confidence clause
RequiresHumanReviewNoLow(s, status) ==
    \/ status = "needs_review"
    \/ (s.total_score >= 60 /\ s.total_score <= 70)
    \/ Len(s.concerns) > 2

\* RequiresHumanReview with the review range ending below 70
RequiresHumanReviewBelow70(s, status) ==
    \/ status = "needs_review"
    \/ s.confidence = "low"
    \/ (s.total_score >= 60 /\ s.total_score < 70)
    \/ Len(s.concerns) > 2

RequiresHumanReview(s, status) ==
    \/ status = "needs_review"
    \/ s.confidence = "low"
    \/ (s.total_score >= 60 /\ s.total_score <= 70)
    \/ Len(s.concerns) > 2

\* HumanReviewReason with the status tested before the confidence
HumanReviewReasonStatusFirst(s, status, requires_human_review) ==
    IF requires_human_review
    THEN IF status = "needs_review" THEN "Borderline qualification score"
         ELSE IF s.confidence = "low" THEN "Low confidence due to insufficient data"
         ELSE IF Len(s.concerns) > 2 THEN "Multiple concerns identified"
         ELSE "None"
    ELSE "None"

\* None is the string "None"
HumanReviewReason(s, status, requires_human_review) ==
    IF requires_human_review
    THEN IF s.confidence = "low" THEN "Low confidence due to insufficient data"
         ELSE IF status = "needs_review" THEN "Borderline qualification score"
         ELSE IF Len(s.concerns) > 2 THEN "Multiple concerns identified"
         ELSE "None"
    ELSE "None"

\* score['recommendations'] after the call, had next_steps been the list
\* itself and not a copy of it
RecommendationsAliased(s, requires_human_review) ==
    IF requires_human_review
    THEN <<"Queue for human review within 4 hours">> \o s.recommendations
    ELSE s.recommendations

\* score['recommendations'] after the call: next_steps is a copy
\* (.copy()), so insert() leaves the list of the score as it was
RecommendationsAfterCall(s, requires_human_review) == s.recommendations

NextSteps(s, requires_human_review) ==
    IF requires_human_review
    THEN <<"Queue for human review within 4 hours">> \o s.recommendations
    ELSE s.recommendations

\* make_qualification_decision with the review range ending at the
\* threshold argument
make_qualification_decision_ThresholdRead(s, require_human_review_threshold, now) ==
    LET status == Status(s)
        requires_human_review ==
            \/ status = "needs_review"
            \/ s.confidence = "low"
            \/ (s.total_score >= 60 /\ s.total_score <= require_human_review_threshold)
            \/ Len(s.concerns) > 2
    IN [status |-> status,
        requires_human_review |-> requires_human_review,
        human_review_reason |-> HumanReviewReason(s, status, requires_human_review),
        next_steps |-> NextSteps(s, requires_human_review),
        qualified_at |-> now,
        qualified_by |-> "strands-qualification-agent"]

\* now is the value of datetime.now()
make_qualification_decision(s, require_human_review_threshold, now) ==
    LET status == Status(s)
        requires_human_review == RequiresHumanReview(s, status)
    IN [status |-> status,
        requires_human_review |-> requires_human_review,
        human_review_reason |-> HumanReviewReason(s, status, requires_human_review),
        next_steps |-> NextSteps(s, requires_human_review),
        qualified_at |-> now,
        qualified_by |-> "strands-qualification-agent"]

----------------------------------------------------------------------------
(* The capture service before any request *)

\* number of POST /leads requests in a run
MaxRequests == 2

Requests == 1..MaxRequests

\* a request that has not reached create_lead yet
NoRequest ==
    [pc |-> "waiting", input |-> PyNone, calls |-> <<>>, data |-> PyNone, extracted |-> PyNone,
     lead |-> PyNone, response |-> PyNone, error |-> "none"]

\* module load of app.main: an empty repository, nothing printed
CaptureNotStarted ==
    /\ llm = "BedrockLLMClient"
    /\ api_key = FALSE
    /\ upstream = PyNone
    /\ requests = [r \in Requests |-> NoRequest]
    /\ heap = <<<<>>>>
    /\ handles = <<>>
    /\ stdout = <<>>
    /\ uuids = 0

----------------------------------------------------------------------------
(* The run of the three tools on one lead: MockQualificationAgent.qualify *)

\* the default of require_human_review_threshold, and another value
Thresholds == {65, 70}

Init ==
    /\ pc = "start"
    /\ lead_data \in Leads
    /\ enrichment = PyNone
    /\ enrichment_data = PyNone
    /\ score = PyNone
    /\ threshold = 65
    /\ decision = PyNone
    /\ error = "none"
    /\ response_str = PyNone
    /\ qualify_result = PyNone
    /\ CaptureNotStarted

\* EnrichLead with the exception caught and the fallback record of safe_tool
\* returned in place of it
EnrichLeadSwallowed ==
    /\ pc = "start"
    /\ pc' = "enriched"
    /\ enrichment' = IF EnrichRaises(lead_data.email.v)
                     THEN EnrichmentDict(lead_data.email, ABSENT, ABSENT, ABSENT, ABSENT,
                                         PyStr("IndexError"))
                     ELSE enrich_lead(lead_data.email.v)
    /\ UNCHANGED <<lead_data, enrichment_data, score, threshold, decision, error>>
    /\ UNCHANGED <<response_str, qualify_result>>
    /\ UNCHANGED captureVars

\* Step 1: enrich_lead(lead.email, lead.phone)
EnrichLead ==
    /\ pc = "start"
    /\ IF EnrichRaises(lead_data.email.v)
       THEN /\ pc' = "raised"
            /\ error' = "IndexError"
            /\ UNCHANGED enrichment
       ELSE /\ pc' = "enriched"
            /\ enrichment' = enrich_lead(lead_data.email.v)
            /\ UNCHANGED error
    /\ UNCHANGED <<lead_data, enrichment_data, score, threshold, decision>>
    /\ UNCHANGED <<response_str, qualify_result>>
    /\ UNCHANGED captureVars

\* Step 2: calculate_qualification_score(lead_dict, enrichment_data)
CalculateQualificationScore ==
    /\ pc = "enriched"
    /\ \E ed \in EnrichmentArgs(enrichment) :
           /\ enrichment_data' = ed
           /\ IF YearsRaises(lead_data)
              THEN /\ pc' = "raised"
                   /\ error' = "TypeError"
                   /\ UNCHANGED score
              ELSE /\ pc' = "scored"
                   /\ score' = calculate_qualification_score(lead_data, ed)
                   /\ UNCHANGED error
    /\ UNCHANGED <<lead_data, enrichment, threshold, decision>>
    /\ UNCHANGED <<response_str, qualify_result>>
    /\ UNCHANGED captureVars

\* Step 3: make_qualification_decision(score, require_human_review_threshold)
MakeQualificationDecision ==
    /\ pc = "scored"
    /\ \E th \in Thresholds, now \in 1..MaxClock :
           /\ threshold' = th
           /\ decision' = make_qualification_decision(score, th, now)
    /\ score' = [score EXCEPT !.recommendations =
                     RecommendationsAfterCall(score, decision'.requires_human_review)]
    /\ pc' = "decided"
    /\ UNCHANGED <<lead_data, enrichment, enrichment_data, error>>
    /\ UNCHANGED <<response_str, qualify_result>>
    /\ UNCHANGED captureVars

----------------------------------------------------------------------------
(* qualify_lead: the status read from the text of the agent's response *)

\* str.upper()
Upper(s) == [i \in DOMAIN s |-> ToUpper(s[i])]

\* pattern in text
Contains(text, pattern) ==
    \E i \in 1..(Len(text) - Len(pattern) + 1) :
        SubSeq(text, i, i + Len(pattern) - 1) = pattern

NOT_QUALIFIED == <<"N", "O", "T", " ", "Q", "U", "A", "L", "I", "F", "I", "E", "D">>
QUALIFIED == <<"Q", "U", "A", "L", "I", "F", "I", "E", "D">>
NEEDS == <<"N", "E", "E", "D", "S">>
REVIEW == <<"R", "E", "V", "I", "E", "W">>

\* qualify_lead: the status is the first of these substring tests that succeeds
StatusFromResponse(response) ==
    LET upper == Upper(response)
    IN IF Contains(upper, NOT_QUALIFIED) THEN "NOT QUALIFIED"
       ELSE IF Contains(upper, QUALIFIED)
            THEN IF Contains(upper, NEEDS) /\ Contains(upper, REVIEW)
                 THEN "NEEDS REVIEW"
                 ELSE "QUALIFIED"
       ELSE "NEEDS REVIEW"

\* the decision status as make_qualification_decision writes it
status_field == <<"s", "t", "a", "t", "u", "s", ":", " ">>
text_qualified == <<"q", "u", "a", "l", "i", "f", "i", "e", "d">>
text_not_qualified == <<"n", "o", "t", "_", "q", "u", "a", "l", "i", "f", "i", "e", "d">>
text_needs_review == <<"n", "e", "e", "d", "s", "_", "r", "e", "v", "i", "e", "w">>

StatusText(status) ==
    CASE status = "qualified" -> text_qualified
      [] status = "not_qualified" -> text_not_qualified
      [] status = "needs_review" -> text_needs_review

\* the same in words, as a heading and inside a sentence
heading == <<"S", "t", "a", "t", "u", "s", ":", " ">>
heading_qualified == <<"Q", "U", "A", "L", "I", "F", "I", "E", "D">>
heading_not_qualified == <<"N", "O", "T", " ", "Q", "U", "A", "L", "I", "F", "I", "E", "D">>
heading_needs_review == <<"N", "E", "E", "D", "S", " ", "R", "E", "V", "I", "E", "W">>
sentence == <<"T", "h", "e", " ", "l", "e", "a", "d", " ">>
sentence_qualified == <<"i", "s", " ", "q", "u", "a", "l", "i", "f", "i", "e", "d", ".">>
sentence_not_qualified == <<"i", "s", " ", "n", "o", "t", " ", "q", "u", "a", "l", "i", "f", "i", "e", "d", ".">>
sentence_needs_review == <<"n", "e", "e", "d", "s", " ", "r", "e", "v", "i", "e", "w", ".">>

\* The texts in which the agent reports a decision status: the status field
\* of the tool result, a heading in capitals, a sentence.
Reports(status) ==
    {status_field \o StatusText(status),
     heading \o (CASE status = "qualified" -> heading_qualified
                   [] status = "not_qualified" -> heading_not_qualified
                   [] status = "needs_review" -> heading_needs_review),
     sentence \o (CASE status = "qualified" -> sentence_qualified
                    [] status = "not_qualified" -> sentence_not_qualified
                    [] status = "needs_review" -> sentence_needs_review)}

\* qualify_lead after the three tools have run: the agent call raises and
\* the exception is re-raised, or the agent answers with a report of the
\* decision and the status is read from the text.  The score and the cost of
\* the result are not modelled.
QualifyLead ==
    /\ pc = "decided"
    /\ \/ /\ pc' = "raised"
          /\ error' = "AgentError"
          /\ UNCHANGED <<response_str, qualify_result>>
       \/ /\ pc' = "responded"
          /\ \E text \in Reports(decision.status) :
                 /\ response_str' = text
                 /\ qualify_result' = [status |-> StatusFromResponse(text), response |-> text]
          /\ UNCHANGED error
    /\ UNCHANGED <<lead_data, enrichment, enrichment_data, score, threshold, decision>>
    /\ UNCHANGED captureVars

Next == EnrichLead \/ CalculateQualificationScore \/ MakeQualificationDecision \/ QualifyLead

Spec == Init /\ [][Next]_vars

----------------------------------------------------------------------------
(* The decision tool called on any score record *)

ConcernTexts ==
    <<"Budget may be insufficient", "No phone number provided", "Employment not verified",
      "Short time in city", "No occupation given">>

\* a score dict with the keys the decision reads; the sub-scores are not read
ScoreRecord(total_score, confidence, concerns, recommendations) ==
    [budget_score |-> 0,
     intent_score |-> 0,
     readiness_score |-> 0,
     engagement_score |-> 0,
     total_score |-> total_score,
     confidence |-> confidence,
     reasoning |-> Reasoning(total_score, confidence),
     strengths |-> <<>>,
     concerns |-> concerns,
     recommendations |-> recommendations]

ScoreRecords ==
    {ScoreRecord(total, confidence, SubSeq(ConcernTexts, 1, n), recommendations) :
         total \in 0..MaxTotal, confidence \in {"high", "medium", "low"},
         n \in 0..MaxConcerns, recommendations \in {FastTrack, Nurture, LongTermNurture}}

InitDecision ==
    /\ pc = "scored"
    /\ lead_data = Lead(EmailOf(local_test, gmail_com), ABSENT, ABSENT, ABSENT, ABSENT)
    /\ enrichment = PyNone
    /\ enrichment_data = PyNone
    /\ score \in ScoreRecords
    /\ threshold = 65
    /\ decision = PyNone
    /\ error = "none"
    /\ response_str = PyNone
    /\ qualify_result = PyNone
    /\ CaptureNotStarted

NextDecision == MakeQualificationDecision

SpecDecision == InitDecision /\ [][NextDecision]_vars

----------------------------------------------------------------------------
(* Properties.  Scored: calculate_qualification_score has returned.        *)

Scored == pc \in {"scored", "decided"}

Decided == pc = "decided"

Enriched == pc \in {"enriched", "scored", "decided"} \/ (pc = "raised" /\ error = "TypeError")

\* C1: whenever calculate_qualification_score returns, budget_score is in
\* 0..30, intent_score in 0..25, readiness_score in 0..25, engagement_score
\* is 20, and total_score is the sum of the four and lies in 0..100.
C1_SubScoresWithinCaps ==
    Scored =>
        /\ score.budget_score \in 0..30
        /\ score.intent_score \in 0..25
        /\ score.readiness_score \in 0..25
        /\ score.engagement_score = 20
        /\ score.total_score = score.budget_score + score.intent_score
                               + score.readiness_score + score.engagement_score
        /\ score.total_score \in 0..100

\* the highest score: every sub-score at the most the code gives it
C1_Witness ==
    /\ pc = "scored"
    /\ score.budget_score = 30
    /\ score.readiness_score = 25
    /\ score.total_score = 95

\* C2: the decision's status is "qualified" iff total_score >= 70 and
\* confidence is "high", "not_qualified" iff total_score < 40, and
\* "needs_review" in every other case; exactly one of the three applies.
C2_StatusPartition ==
    Decided =>
        /\ decision.status \in {"qualified", "not_qualified", "needs_review"}
        /\ decision.status = "qualified"
               <=> (score.total_score >= 70 /\ score.confidence = "high")
        /\ decision.status = "not_qualified" <=> score.total_score < 40
        /\ decision.status = "needs_review"
               <=> (~(score.total_score >= 70 /\ score.confidence = "high")
                    /\ ~(score.total_score < 40))

\* a score of exactly 70 with high confidence is decided qualified
C2_Witness ==
    /\ Decided
    /\ score.total_score = 70
    /\ score.confidence = "high"
    /\ decision.status = "qualified"

\* C3: requires_human_review is true exactly when status is needs_review, or
\* confidence is "low", or 60 <= total_score <= 70, or there are more than 2
\* concerns; so it is true for every score of confidence "low".
C3_HumanReviewRule ==
    Decided =>
        /\ decision.requires_human_review
               <=> \/ decision.status = "needs_review"
                   \/ score.confidence = "low"
                   \/ (60 <= score.total_score /\ score.total_score <= 70)
                   \/ Len(score.concerns) > 2
        /\ score.confidence = "low" => decision.requires_human_review

\* a low-confidence score that is not needs_review, has a total outside
\* 60..70 and at most 2 concerns: review rests on the confidence alone
C3_Witness ==
    /\ Decided
    /\ score.confidence = "low"
    /\ decision.status = "not_qualified"
    /\ Len(score.concerns) <= 2
    /\ decision.requires_human_review

\* every optional field of the lead is absent, None, or a value of its type
OptionalFieldsAbsentOrTyped(ld) ==
    /\ ld.phone.t \in {"absent", "None", "str"}
    /\ ld.budget.t \in {"absent", "None", "str"}
    /\ ld.years_in_city.t \in {"absent", "None", "int"}

\* C4: scoring and decision never raise: for a lead whose optional fields
\* are absent or None (years_in_city present with value None included),
\* calculate_qualification_score returns a score instead of failing.
C4_ScoringNeverRaises ==
    OptionalFieldsAbsentOrTyped(lead_data) => ~(pc = "raised" /\ error = "TypeError")

\* the characters str.isdigit accepts and the decimal digits among them
C5_DigitLike == {"0", "1", "2", "3", "4", "5", "6", "7", "8", "9", "²"}

C5_Decimal == {"0", "1", "2", "3", "4", "5", "6", "7", "8", "9"}

C5_DigitValue(c) ==
    CASE c = "0" -> 0 [] c = "1" -> 1 [] c = "2" -> 2 [] c = "3" -> 3 [] c = "4" -> 4
      [] c = "5" -> 5 [] c = "6" -> 6 [] c = "7" -> 7 [] c = "8" -> 8 [] c = "9" -> 9

\* the number formed from the digits of s, read left to right
RECURSIVE C5_NumberFromDigits(_, _)
C5_NumberFromDigits(s, acc) ==
    IF s = <<>> THEN acc
    ELSE IF Head(s) \in C5_Decimal
         THEN C5_NumberFromDigits(Tail(s), 10 * acc + C5_DigitValue(Head(s)))
         ELSE C5_NumberFromDigits(Tail(s), acc)

\* the value has a number in it: a digit, and no digit that is not decimal
C5_Parses(s) ==
    /\ \E i \in DOMAIN s : s[i] \in C5_DigitLike
    /\ \A i \in DOMAIN s : s[i] \in C5_DigitLike => s[i] \in C5_Decimal

C5_Bonus(n) ==
    CASE n >= 500000 -> 20
      [] n >= 300000 /\ n < 500000 -> 15
      [] n >= 200000 /\ n < 300000 -> 10
      [] n >= 100000 /\ n < 200000 -> 5
      [] n < 100000 -> 0

\* budget strings of the tests and the budget_score each must get
C5_Expected ==
    {<<b50k, 10>>, <<b99999, 10>>, <<b100k, 15>>, <<b199999, 15>>, <<b200k, 20>>,
     <<b250k, 20>>, <<b299999, 20>>, <<b300k, 25>>, <<b450k, 25>>, <<b499999, 25>>,
     <<b500k, 30>>, <<b1200k, 30>>, <<b450k_plain, 25>>, <<b_tbd, 15>>, <<b_250k_word, 10>>}

\* C5: budget_score is 0 when the budget is absent (no key, None, empty or
\* zero); otherwise 10 plus the bonus of the number formed from the digits
\* of the budget (>=500000: 20, >=300000: 15, >=200000: 10, >=100000: 5,
\* else 0), or plus 5 when the value cannot be parsed; never above 30.
\* "$450,000" parses to 450000 and scores 25.
C5_BudgetScore ==
    Scored =>
        LET budget == lead_data.budget
        IN /\ budget \in {ABSENT, PyNone, PyStr(<<>>), PyInt(0)} => score.budget_score = 0
           /\ (budget.t = "str" /\ budget.v # <<>>) =>
                  score.budget_score =
                      IF C5_Parses(budget.v)
                      THEN 10 + C5_Bonus(C5_NumberFromDigits(budget.v, 0))
                      ELSE 15
           /\ (budget.t = "int" /\ budget.v # 0) =>
                  score.budget_score = 10 + C5_Bonus(budget.v)
           /\ \A e \in C5_Expected : budget = PyStr(e[1]) => score.budget_score = e[2]
           /\ budget = PyStr(b450k) => C5_NumberFromDigits(budget.v, 0) = 450000
           /\ score.budget_score <= 30

\* the currency-formatted budget of the claim has been scored
C5_Witness ==
    /\ pc = "scored"
    /\ lead_data.budget = PyStr(b450k)
    /\ score.budget_score = 25

\* C6: intent_score is 20 for the sources direct, referral and
\* property-listing, 15 for google-ads and facebook-ads, and 10 for any
\* other source value, also when the source key is absent.
C6_IntentScore ==
    Scored =>
        LET source == lead_data.source
        IN /\ source \in {PyStr("direct"), PyStr("referral"), PyStr("property-listing")}
                  => score.intent_score = 20
           /\ source \in {PyStr("google-ads"), PyStr("facebook-ads")}
                  => score.intent_score = 15
           /\ source \notin {PyStr("direct"), PyStr("referral"), PyStr("property-listing"),
                             PyStr("google-ads"), PyStr("facebook-ads")}
                  => score.intent_score = 10
           /\ source = ABSENT => score.intent_score = 10

\* a lead with no source key has been scored
C6_Witness ==
    /\ pc = "scored"
    /\ lead_data.source = ABSENT
    /\ score.intent_score = 10

\* the years_in_city part of the readiness score; an absent key counts as 0
C7_YearsPart(years) ==
    LET n == IF years = ABSENT THEN 0 ELSE years.v
    IN CASE n >= 5 -> 15
         [] n >= 2 /\ n < 5 -> 10
         [] n = 1 -> 5
         [] n < 1 -> 0

\* the enrichment data holds credit_indicators.has_stable_employment = True
C7_ReportsStableEmployment(ed) ==
    /\ ed.t = "dict"
    /\ ed.v.credit_indicators # ABSENT
    /\ ed.v.credit_indicators.v.has_stable_employment = PyBool(TRUE)

\* C7: readiness_score is the years_in_city part (>=5: 15, >=2: 10, >=1: 5,
\* else 0) plus 10 exactly when the enrichment data reports
\* has_stable_employment; without enrichment data the 10 is not added; the
\* result is at most 25.
C7_ReadinessScore ==
    Scored =>
        /\ score.readiness_score =
               C7_YearsPart(lead_data.years_in_city)
               + (IF C7_ReportsStableEmployment(enrichment_data) THEN 10 ELSE 0)
        /\ enrichment_data \in {PyNone, EmptyDict} =>
               score.readiness_score = C7_YearsPart(lead_data.years_in_city)
        /\ score.readiness_score <= 25

\* five years in the city, and stable employment reported for a consumer address
C7_Witness ==
    /\ pc = "scored"
    /\ lead_data.years_in_city = PyInt(5)
    /\ enrichment_data.t = "dict"
    /\ enrichment_data.v.is_corporate_email = PyBool(FALSE)
    /\ score.readiness_score = 25

\* a budget value is present: the key holds something other than None, "" or 0
C8_BudgetPresent == lead_data.budget \notin {ABSENT, PyNone, PyStr(<<>>), PyInt(0)}

\* an enrichment result is present: the argument is a dict that holds something
C8_EnrichmentPresent == enrichment_data \notin {PyNone, EmptyDict}

\* C8: confidence is "high" iff a budget value and an enrichment result are
\* both present, "low" iff both are absent, "medium" when exactly one is.
C8_Confidence ==
    Scored =>
        /\ score.confidence = "high" <=> (C8_BudgetPresent /\ C8_EnrichmentPresent)
        /\ score.confidence = "low" <=> (~C8_BudgetPresent /\ ~C8_EnrichmentPresent)
        /\ score.confidence = "medium" <=> (C8_BudgetPresent # C8_EnrichmentPresent)

\* no budget, but an enrichment result: medium
C8_Witness ==
    /\ pc = "scored"
    /\ ~C8_BudgetPresent
    /\ C8_EnrichmentPresent
    /\ score.confidence = "medium"

\* the lead of the scenario: email "test@gmail.com", budget "$50,000", source
\* "organic", no phone and no years_in_city key, scored with the result of
\* enrich_lead as its enrichment data
C9_Scenario ==
    /\ lead_data = Lead(EmailOf(local_test, gmail_com), ABSENT, PyStr(b50k), ABSENT,
                        PyStr("organic"))
    /\ enrichment_data = enrichment

C9_Scores ==
    /\ score.budget_score = 10
    /\ score.intent_score = 10
    /\ score.readiness_score = 0
    /\ score.engagement_score = 20
    /\ score.total_score = 40

C10_Original ==
    Enriched =>
        /\ \A p \in EmailParts :
               lead_data.email.v = EmailOf(p[1], p[2]) =>
                   (enrichment.v.is_corporate_email = PyBool(TRUE)
                        <=> p[2] \notin ConsumerDomains)
        /\ Cardinality(ConsumerDomains) = 5

\* C10 amended: the domain is the part of the email between the first '@'
\* and the next one, if any, and the lead is corporate exactly when the
\* domain is not one of the four domains gmail.com, yahoo.com, hotmail.com,
\* outlook.com (compared as written, so "Gmail.com" and "aol.com" are
\* corporate).
C10_CorporateIffNotWebmail ==
    Enriched =>
        /\ \A p \in EmailParts :
               lead_data.email.v = EmailOf(p[1], p[2]) =>
                   (enrichment.v.is_corporate_email = PyBool(TRUE)
                        <=> p[2] \notin {gmail_com, yahoo_com, hotmail_com, outlook_com})
        /\ lead_data.email.v = EmailTwoAt =>
               enrichment.v.is_corporate_email = PyBool(FALSE)
        /\ enrichment.v.is_corporate_email \in {PyBool(TRUE), PyBool(FALSE)}

\* a webmail domain outside the four has been classified corporate
C10_Witness ==
    /\ pc = "enriched"
    /\ lead_data.email.v = EmailOf(local_u, aol_com)
    /\ enrichment.v.is_corporate_email = PyBool(TRUE)

\* the company name each domain of EmailParts must get
C11_CompanyNames ==
    {<<aol_com, <<"A", "o", "l">>>>,
     <<Gmail_com_mixed, <<"G", "m", "a", "i", "l">>>>,
     <<techstartup_com, <<"T", "e", "c", "h", "s", "t", "a", "r", "t", "u", "p">>>>,
     <<fortune500_com, <<"F", "o", "r", "t", "u", "n", "e", "5", "0", "0">>>>,
     <<my_firm_io, <<"M", "y", "-", "F", "i", "r", "m">>>>}

\* C11: the result of enrich_lead is determined by the corporate flag.
\* Corporate: estimated_income "$75,000-$125,000", has_stable_employment
\* true, company_info with the title-cased first label of the domain as
\* name, industry "Technology", size "100-500", and a profile URL ending in
\* the local part.  Not corporate: "$50,000-$100,000", has_stable_employment
\* false, no company_info and no profile URL.  "techstartup.com" gives the
\* name "Techstartup".
C11_EnrichmentByCorporateFlag ==
    (Enriched /\ lead_data.email.v # EmailTwoAt) =>
        LET e == enrichment.v
            p == CHOOSE q \in EmailParts : lead_data.email.v = EmailOf(q[1], q[2])
        IN IF e.is_corporate_email = PyBool(TRUE)
           THEN /\ e.estimated_income = PyStr("$75,000-$125,000")
                /\ e.credit_indicators.v.has_stable_employment = PyBool(TRUE)
                /\ e.company_info # ABSENT
                /\ \E c \in C11_CompanyNames :
                       c[1] = p[2] /\ e.company_info.v.name = PyStr(c[2])
                /\ e.company_info.v.industry = PyStr("Technology")
                /\ e.company_info.v.size = PyStr("100-500")
                /\ e.linkedin_profile = PyStr(linkedin_prefix \o p[1])
           ELSE /\ e.estimated_income = PyStr("$50,000-$100,000")
                /\ e.credit_indicators.v.has_stable_employment = PyBool(FALSE)
                /\ e.company_info = ABSENT
                /\ e.linkedin_profile = ABSENT

\* sarah.johnson@techstartup.com has been enriched
C11_Witness ==
    /\ pc = "enriched"
    /\ lead_data.email.v = EmailOf(local_sarah_johnson, techstartup_com)
    /\ enrichment.v.company_info.v.name
           = PyStr(<<"T", "e", "c", "h", "s", "t", "a", "r", "t", "u", "p">>)

\* C12: enrich_lead on an email with no '@' fails with an error and returns
\* no enrichment result; no default record stands in for it.
C12_NoAtRaises ==
    ((\A i \in DOMAIN lead_data.email.v : lead_data.email.v[i] # "@") /\ pc # "start") =>
        /\ pc = "raised"
        /\ error = "IndexError"
        /\ enrichment = PyNone

\* enrich_lead has been called on the email without '@'
C12_Witness ==
    /\ lead_data.email.v = EmailNoAt
    /\ pc = "raised"
    /\ error = "IndexError"

\* C13: human_review_reason is the first match of: confidence "low" gives
\* "Low confidence due to insufficient data"; else status needs_review gives
\* "Borderline qualification score"; else more than 2 concerns gives
\* "Multiple concerns identified"; else none.  It is none whenever human
\* review is not required.
C13_ReasonPriority ==
    Decided =>
        LET low == score.confidence = "low"
            borderline == decision.status = "needs_review"
            many == Len(score.concerns) > 2
            reason == decision.human_review_reason
        IN /\ ~decision.requires_human_review => reason = "None"
           /\ (decision.requires_human_review /\ low) =>
                  reason = "Low confidence due to insufficient data"
           /\ (decision.requires_human_review /\ ~low /\ borderline) =>
                  reason = "Borderline qualification score"
           /\ (decision.requires_human_review /\ ~low /\ ~borderline /\ many) =>
                  reason = "Multiple concerns identified"
           /\ (decision.requires_human_review /\ ~low /\ ~borderline /\ ~many) =>
                  reason = "None"

\* a low-confidence score in the review range: the first rule wins over the
\* second
C13_Witness ==
    /\ Decided
    /\ score.confidence = "low"
    /\ decision.status = "needs_review"
    /\ Len(score.concerns) > 2
    /\ decision.human_review_reason = "Low confidence due to insufficient data"

\* C14: next_steps is the score's recommendations in the same order, with
\* "Queue for human review within 4 hours" placed first exactly when human
\* review is required; the recommendations list held in the input score is
\* left unchanged by the call.
C14_NextStepsCopy ==
    [][(pc = "scored" /\ pc' = "decided") =>
           /\ score' = score
           /\ decision'.next_steps =
                  IF decision'.requires_human_review
                  THEN <<"Queue for human review within 4 hours">> \o score.recommendations
                  ELSE score.recommendations]_vars

\* a decision that requires review: four next steps, three recommendations
C14_Witness ==
    /\ Decided
    /\ decision.requires_human_review
    /\ Len(decision.next_steps) = Len(score.recommendations) + 1
    /\ decision.next_steps[1] = "Queue for human review within 4 hours"
    /\ score.recommendations \in {FastTrack, Nurture, LongTermNurture}

\* the call of calculate_qualification_score was given the result of
\* enrich_lead, as the run of the three tools in sequence does
C20_Pipelined == enrichment_data = enrichment

\* C20: of the three leads of the multi-scenario test, the 'Unqualified
\* Lead' (consumer-webmail email, budget "$50,000", source "organic", no
\* phone, no years_in_city) is decided not_qualified, and the 'High-Value
\* Executive' and 'First-Time Buyer' leads get another status.
C20_ScenarioOutcomes ==
    /\ (lead_data \in {UnqualifiedLead, UnqualifiedLeadFromInput} /\ C20_Pipelined
            /\ pc \in {"raised", "decided"}) =>
           (Decided /\ decision.status = "not_qualified")
    /\ (lead_data \in {HighValueExecutive, FirstTimeBuyer} /\ C20_Pipelined /\ Decided) =>
           decision.status # "not_qualified"


----------------------------------------------------------------------------
(* leadcaptureagent: strings and Python expressions of the capture flow *)

\* the characters str.strip() removes and \s matches
Whitespace == {" ", "\t", "\n"}

RECURSIVE LStrip(_)
LStrip(s) == IF s # <<>> /\ Head(s) \in Whitespace THEN LStrip(Tail(s)) ELSE s

RECURSIVE RStrip(_)
RStrip(s) ==
    IF s # <<>> /\ s[Len(s)] \in Whitespace THEN RStrip(SubSeq(s, 1, Len(s) - 1)) ELSE s

\* str.strip()
Strip(s) == RStrip(LStrip(s))

\* str.lower()
Lower(s) == [i \in DOMAIN s |-> ToLower(s[i])]

\* \d of the re module on a str pattern: the characters of category Nd,
\* which among the characters of this model are the ten decimal digits (the
\* superscript two is a digit for str.isdigit and not for \d)
IsDecimalChar(c) == c \in Range(DecimalDigits)

\* x or default
Or(x, default) == IF Truthy(x) THEN x ELSE default

manual == <<"m", "a", "n", "u", "a", "l">>

\* (d.get(key) or default), the value .strip() is then called on
FieldOr(d, key, default) == Or(Get(d.v, key), PyStr(default))

\* (d.get(key) or default).strip() raises AttributeError: d is not a dict
\* (a JSON array has no .get) or the value is a non-empty non-str
FieldRaises(d, key, default) == d.t # "dict" \/ FieldOr(d, key, default).t # "str"

FieldStripped(d, key, default) == Strip(FieldOr(d, key, default).v)

\* the dict of the return statement shared by LLMClient and BedrockLLMClient
NormalizedFieldsRaise(data) ==
    \/ FieldRaises(data, "full_name", <<>>)
    \/ FieldRaises(data, "email", <<>>)
    \/ FieldRaises(data, "phone", <<>>)
    \/ FieldRaises(data, "source", manual)

\* NormalizedFields with the source stripped and not defaulted again
NormalizedFieldsSourceStripped(data) ==
    PyDict([full_name |-> PyStr(FieldStripped(data, "full_name", <<>>)),
            email |-> PyStr(FieldStripped(data, "email", <<>>)),
            phone |-> PyStr(FieldStripped(data, "phone", <<>>)),
            source |-> PyStr(FieldStripped(data, "source", manual))])

NormalizedFields(data) ==
    PyDict([full_name |-> PyStr(FieldStripped(data, "full_name", <<>>)),
            email |-> PyStr(FieldStripped(data, "email", <<>>)),
            phone |-> PyStr(FieldStripped(data, "phone", <<>>)),
            source |-> PyStr(IF FieldStripped(data, "source", manual) = <<>>
                             THEN manual
                             ELSE FieldStripped(data, "source", manual))])

EmptyFields ==
    PyDict([full_name |-> PyStr(<<>>), email |-> PyStr(<<>>), phone |-> PyStr(<<>>),
            source |-> PyStr(manual)])

\* LeadCaptureAgent._normalize_email
normalize_email(email) == Lower(Strip(Or(email, PyStr(<<>>)).v))

\* re.match(r"^[^@\s]+@[^@\s]+\.[^@\s]+$", email) on a string that does not
\* end in a newline: one '@' with text before it, no whitespace, and after the
\* '@' a '.' that has text on both sides
EmailPatternMatches(email) ==
    \E at \in DOMAIN email :
        /\ email[at] = "@"
        /\ at > 1
        /\ \A i \in DOMAIN email : i # at => email[i] \notin Whitespace \cup {"@"}
        /\ \E dot \in (at + 2)..(Len(email) - 1) : email[dot] = "."

\* IsValidEmail with the pattern test left out
IsValidEmailNonEmpty(email) == email # <<>>

\* LeadCaptureAgent._is_valid_email
IsValidEmail(email) == email # <<>> /\ EmailPatternMatches(email)

\* re.sub(r"\D", "", phone)
RECURSIVE NormalizePhone(_)
NormalizePhone(phone) ==
    IF phone = <<>> THEN <<>>
    ELSE IF IsDecimalChar(Head(phone)) THEN <<Head(phone)>> \o NormalizePhone(Tail(phone))
         ELSE NormalizePhone(Tail(phone))

\* LeadCaptureAgent._normalize_phone
normalize_phone(phone) == NormalizePhone(Or(phone, PyStr(<<>>)).v)

\* models.Lead as capture constructs it from the extracted dict
NewLead(id, extracted) ==
    LET full_name == Strip(Or(Get(extracted.v, "full_name"), PyStr(<<>>)).v)
        email_raw == Or(Get(extracted.v, "email"), PyStr(<<>>))
        phone_raw == Or(Get(extracted.v, "phone"), PyStr(<<>>))
        source0 == Strip(Or(Get(extracted.v, "source"), PyStr(manual)).v)
        source == IF source0 = <<>> THEN manual ELSE source0
        email0 == normalize_email(email_raw)
        phone == normalize_phone(phone_raw)
        email == IF email0 # <<>> /\ ~IsValidEmail(email0) THEN <<>> ELSE email0
    IN [id |-> id, full_name |-> full_name, email |-> email, phone |-> phone,
        source |-> source]


----------------------------------------------------------------------------
(* leadcaptureagent: what the upstream model answers *)

\* a JSON array such as [1, 2]: parses, holds no braces, has no .get
JsonArray == [t |-> "list", v |-> <<>>]
\* a text in braces that is not JSON, such as {oops}
BrokenObject == [t |-> "broken", v |-> <<>>]
\* a text with no braces, such as Sorry
PlainText == [t |-> "text", v |-> <<>>]

JSONDecodeError == [t |-> "JSONDecodeError", v |-> <<>>]

\* a JSON object with the four keys of the prompt, each present or not
JsonObject(full_name, email, phone, source) ==
    PyDict([full_name |-> full_name, email |-> email, phone |-> phone, source |-> source])

\* the JSON object {}
EmptyObject == JsonObject(ABSENT, ABSENT, ABSENT, ABSENT)

\* The answer of one invocation: the call raised, or a content made of a
\* body laid out bare, inside prose, inside a ```json fence or inside a
\* plain ``` fence.  The prose and the fences hold no braces of their own.
CallError == [kind |-> "error", wrap |-> "bare", body |-> PyNone]

Content(wrap, body) == [kind |-> "content", wrap |-> wrap, body |-> body]

\* field values, character by character
name_bob == <<"B", "o", "b">>
name_padded == <<" ", "B", "o", "b", " ", "L", "\n">>
email_ok == <<"b", "@", "x", ".", "c">>
email_padded_upper == <<" ", "B", "@", "x", ".", "C", "\n">>
email_no_dot == <<"b", "@", "x">>
email_no_at == <<"b", "x", ".", "c">>
email_two_at == <<"a", "@", "b", "@", "x", ".", "c">>
email_inner_space == <<"a", " ", "b", "@", "x", ".", "c">>
email_no_local == <<"@", "x", ".", "c">>
email_dot_first == <<"b", "@", ".", "c">>
email_dot_last == <<"b", "@", "x", ".">>
email_dots == <<"b", "@", ".", ".", "c">>
email_blank == <<" ", "\t">>
phone_plain == <<"5", "5", "5">>
phone_formatted == <<"+", "1", " ", "(", "5", "5", ")", "-", "2">>
phone_superscript == <<"5", "²", "1">>
phone_letters == <<"n", "/", "a">>
source_web == <<"w", "e", "b">>
source_padded == <<" ", "W", "e", "b", " ">>
source_blank == <<" ", "\n">>

FullNameValues == {PyStr(name_bob), PyStr(name_padded), PyStr(<<>>), PyNone, ABSENT, PyInt(7)}

EmailValues ==
    {PyStr(e) : e \in {email_ok, email_padded_upper, email_no_dot, email_no_at, email_two_at,
                       email_inner_space, email_no_local, email_dot_first, email_dot_last,
                       email_dots, email_blank, <<>>}}
    \cup {PyNone, ABSENT, PyInt(0)}

PhoneValues ==
    {PyStr(p) : p \in {phone_plain, phone_formatted, phone_superscript, phone_letters, <<>>}}
    \cup {PyNone, ABSENT, PyInt(5551234)}

SourceValues ==
    {PyStr(s) : s \in {source_web, source_padded, source_blank, <<>>}}
    \cup {PyNone, ABSENT, PyInt(0), PyBool(TRUE)}

BaselineObject == JsonObject(PyStr(name_bob), PyStr(email_ok), PyStr(phone_plain), PyStr(source_web))

\* the objects the upstream model may answer: one field varies at a time
JsonObjects ==
    {JsonObject(n, PyStr(email_ok), PyStr(phone_plain), PyStr(source_web)) : n \in FullNameValues}
    \cup {JsonObject(PyStr(name_bob), e, PyStr(phone_plain), PyStr(source_web)) : e \in EmailValues}
    \cup {JsonObject(PyStr(name_bob), PyStr(email_ok), p, PyStr(source_web)) : p \in PhoneValues}
    \cup {JsonObject(PyStr(name_bob), PyStr(email_ok), PyStr(phone_plain), s) : s \in SourceValues}
    \cup {EmptyObject}

Wraps == {"bare", "prose", "fence_json", "fence"}

\* message.content of the chat completion: None, or a text
Responses ==
    {CallError, Content("bare", PyNone)}
    \cup {Content("bare", o) : o \in JsonObjects}
    \cup {Content(w, b) : w \in Wraps, b \in {BaselineObject, JsonArray, BrokenObject, PlainText}}

\* what the regular expressions of MockLLMClient find in the input text:
\* the name (or ""), the match of EMAIL_RE and of PHONE_RE (or no match)
MockText(name, email, phone) == [name |-> name, email |-> email, phone |-> phone]

MockTexts ==
    {MockText(n, e, p) :
         n \in {name_bob, <<>>},
         e \in {PyStr(email_ok), PyStr(<<"B", "@", "x", ".", "C", ".">>), PyNone},
         p \in {PyStr(phone_plain), PyStr(<<"+", "1", " ", "5", "5", "5", "-", "1", "2", "3", "4">>),
                PyNone}}

\* One run's upstream: the answer to the first invocation, the answer to a
\* second one, and what the input text holds for the regular expressions.
Upstream(first, second, text) == [first |-> first, second |-> second, text |-> text]

BaselineUpstream ==
    Upstream(Content("bare", BaselineObject), Content("bare", BaselineObject),
             MockText(name_bob, PyStr(email_ok), PyStr(phone_plain)))

\* first answers after which LLMClient makes its second invocation
FailingFirsts == {CallError, Content("prose", BaselineObject), Content("bare", PlainText)}

Upstreams(client) ==
    CASE client = "LLMClient" ->
             {Upstream(f, BaselineUpstream.second, BaselineUpstream.text) : f \in Responses}
             \cup {Upstream(f, s, BaselineUpstream.text) : f \in FailingFirsts, s \in Responses}
      [] client = "BedrockLLMClient" ->
             {Upstream(f, BaselineUpstream.second, BaselineUpstream.text) :
                  f \in Responses \ {Content("bare", PyNone)}}
      [] client = "MockLLMClient" ->
             {Upstream(BaselineUpstream.first, BaselineUpstream.second, t) : t \in MockTexts}


----------------------------------------------------------------------------
(* leadcaptureagent: the extraction adapters *)

\* json.loads(text) of a body laid out by wrap: only a bare JSON value parses
JsonLoads(wrap, body) ==
    IF wrap = "bare" /\ body.t \in {"dict", "list"} THEN body ELSE JSONDecodeError

\* re.search(r"\{[\s\S]*\}", content) finds a match: the text from the first
\* '{' to the last '}', which is the body when the body is in braces
BraceMatch(content) == content.body.t \in {"dict", "broken"}

\* re.search(r"```json\s*(\{.*?\})\s*```", content) and the same for a plain
\* fence find a match
FenceMatch(content) ==
    content.wrap \in {"fence_json", "fence"} /\ content.body.t \in {"dict", "broken"}

\* message.content or "{}"
ContentOrEmptyObject(resp) ==
    IF resp.body = PyNone THEN Content("bare", EmptyObject) ELSE resp

\* the outcome of extract_lead_fields: it returned value or raised error;
\* calls are the upstream invocations made, data the parsed upstream object
Returned(value, data, calls) ==
    [raised |-> FALSE, error |-> "none", value |-> value, data |-> data, calls |-> calls]

Raised(exception, calls) ==
    [raised |-> TRUE, error |-> exception, value |-> PyNone, data |-> PyNone, calls |-> calls]

\* LLMClient.extract_lead_fields from the return statement on
LLMClientReturn(data, calls) ==
    IF NormalizedFieldsRaise(data)
    THEN Raised("AttributeError", calls)
    ELSE Returned(NormalizedFields(data), data, calls)

\* LLMClient.extract_lead_fields: the except branch of the first invocation
LLMClientRetry(second, calls) ==
    IF second.kind = "error"
    THEN Raised("RuntimeError", calls)
    ELSE LET content == ContentOrEmptyObject(second)
         IN IF BraceMatch(content)
            THEN IF JsonLoads("bare", content.body) = JSONDecodeError
                 THEN Raised("RuntimeError", calls)
                 ELSE LLMClientReturn(JsonLoads("bare", content.body), calls)
            ELSE LLMClientReturn(EmptyObject, calls)

\* LLMClient_extract_lead_fields with the test of the credential made after
\* the first invocation
LLMClient_extract_lead_fields_LateKeyTest(key, input) ==
    IF ~key
    THEN Raised("RuntimeError", <<"json_object">>)
    ELSE LET content == ContentOrEmptyObject(input.first)
             first_failed ==
                 \/ input.first.kind = "error"
                 \/ JsonLoads(content.wrap, content.body) = JSONDecodeError
         IN IF first_failed
            THEN LLMClientRetry(input.second, <<"json_object", "free_form">>)
            ELSE LLMClientReturn(JsonLoads(content.wrap, content.body), <<"json_object">>)

LLMClient_extract_lead_fields(key, input) ==
    IF ~key
    THEN Raised("RuntimeError", <<>>)
    ELSE LET content == ContentOrEmptyObject(input.first)
             first_failed ==
                 \/ input.first.kind = "error"
                 \/ JsonLoads(content.wrap, content.body) = JSONDecodeError
         IN IF first_failed
            THEN LLMClientRetry(input.second, <<"json_object", "free_form">>)
            ELSE LLMClientReturn(JsonLoads(content.wrap, content.body), <<"json_object">>)

\* BedrockLLMClient.extract_lead_fields: one invocation of the agent
BedrockLLMClient_extract_lead_fields(input) ==
    LET content == input.first
        calls == <<"agent">>
        json_match == FenceMatch(content) \/ BraceMatch(content)
        data == IF json_match
                THEN JsonLoads("bare", content.body)
                ELSE JsonLoads(content.wrap, content.body)
    IN IF content.kind = "error" THEN Raised("RuntimeError", calls)
       ELSE IF data = JSONDecodeError THEN Returned(EmptyFields, PyNone, calls)
       ELSE IF NormalizedFieldsRaise(data) THEN Raised("RuntimeError", calls)
       ELSE Returned(NormalizedFields(data), data, calls)

\* MockLLMClient.extract_lead_fields
MockLLMClient_extract_lead_fields(input) ==
    Returned(PyDict([full_name |-> Or(PyStr(input.text.name), PyStr(<<>>)),
                     email |-> IF Truthy(input.text.email) THEN input.text.email
                               ELSE PyStr(<<>>),
                     phone |-> IF Truthy(input.text.phone) THEN input.text.phone
                               ELSE PyStr(<<>>),
                     source |-> PyStr(manual)]),
             PyNone, <<>>)

\* self._llm.extract_lead_fields(input_text)
extract_lead_fields(client, key, input) ==
    CASE client = "LLMClient" -> LLMClient_extract_lead_fields(key, input)
      [] client = "BedrockLLMClient" -> BedrockLLMClient_extract_lead_fields(input)
      [] client = "MockLLMClient" -> MockLLMClient_extract_lead_fields(input)


----------------------------------------------------------------------------
(* leadcaptureagent: POST /leads requests against the one repository *)

Clients == {"LLMClient", "BedrockLLMClient", "MockLLMClient"}

\* LeadRepository._leads
repo_leads == heap[1]

\* uuid4(): a value that no earlier call returned
uuid4 == uuids + 1

\* the module-level objects of app.main with any of the three adapters; the
\* credential can be missing for LLMClient only
InitCapture ==
    /\ pc = "start"
    /\ lead_data = UnqualifiedLead
    /\ enrichment = PyNone
    /\ enrichment_data = PyNone
    /\ score = PyNone
    /\ threshold = 65
    /\ decision = PyNone
    /\ error = "none"
    /\ response_str = PyNone
    /\ qualify_result = PyNone
    /\ llm \in Clients
    /\ api_key \in {TRUE} \cup {llm # "LLMClient"}
    /\ upstream \in (IF api_key THEN Upstreams(llm) ELSE {BaselineUpstream})
    /\ requests = [r \in Requests |-> NoRequest]
    /\ heap = <<<<>>>>
    /\ handles = <<>>
    /\ stdout = <<>>
    /\ uuids = 0

\* the text of request r and what the upstream model answers to it: the
\* first request has this run's upstream, the others the baseline one
InputOf(r) == IF r = 1 THEN upstream ELSE BaselineUpstream

\* capture, line 30: the call of the adapter on the text of request r
Extract(r) ==
    /\ requests[r].pc = "waiting"
    /\ LET result == extract_lead_fields(llm, api_key, InputOf(r))
       IN requests' = [requests EXCEPT ![r] =
              [@ EXCEPT !.pc = IF result.raised THEN "failed" ELSE "extracted",
                        !.input = InputOf(r),
                        !.calls = result.calls,
                        !.data = result.data,
                        !.extracted = result.value,
                        !.error = result.error]]
    /\ UNCHANGED <<llm, api_key, upstream, heap, handles, stdout, uuids>>
    /\ UNCHANGED toolVars

\* capture, lines 32-50: normalization and Lead(id=uuid4(), ...)
Construct(r) ==
    /\ requests[r].pc = "extracted"
    /\ requests' = [requests EXCEPT ![r] =
           [@ EXCEPT !.pc = "constructed", !.lead = NewLead(uuid4, requests[r].extracted)]]
    /\ uuids' = uuid4
    /\ UNCHANGED <<llm, api_key, upstream, heap, handles, stdout>>
    /\ UNCHANGED toolVars

\* LeadRepository.add with a lead equal in its fields to a stored one skipped
AddUnique(leads, lead) ==
    IF \E i \in DOMAIN leads :
           [leads[i] EXCEPT !.id = 0] = [lead EXCEPT !.id = 0]
    THEN leads
    ELSE Append(leads, lead)

\* LeadRepository.add putting the lead first: self._leads.insert(0, lead)
RepositoryAddFirst(leads, lead) == <<lead>> \o leads

\* LeadRepository.add: self._leads.append(lead)
RepositoryAdd(leads, lead) == Append(leads, lead)

\* capture, line 52: self._repo.add(lead)
Add(r) ==
    /\ requests[r].pc = "constructed"
    /\ heap' = [heap EXCEPT ![1] = RepositoryAdd(repo_leads, requests[r].lead)]
    /\ requests' = [requests EXCEPT ![r] = [@ EXCEPT !.pc = "added"]]
    /\ UNCHANGED <<llm, api_key, upstream, handles, stdout, uuids>>
    /\ UNCHANGED toolVars

\* Notify with the print placed before self._repo.add(lead), the add left out
NotifyBeforeAdd(r) ==
    /\ requests[r].pc = "constructed"
    /\ stdout' = Append(stdout, requests[r].lead.id)
    /\ requests' = [requests EXCEPT ![r] = [@ EXCEPT !.pc = "notified"]]
    /\ UNCHANGED <<llm, api_key, upstream, heap, handles, uuids>>
    /\ UNCHANGED toolVars

\* capture, line 54: print(f"EVENT: lead.created {lead.id}")
Notify(r) ==
    /\ requests[r].pc = "added"
    /\ stdout' = Append(stdout, requests[r].lead.id)
    /\ requests' = [requests EXCEPT ![r] = [@ EXCEPT !.pc = "notified"]]
    /\ UNCHANGED <<llm, api_key, upstream, heap, handles, uuids>>
    /\ UNCHANGED toolVars

\* capture, line 56, and create_lead: the lead is the response
Return(r) ==
    /\ requests[r].pc = "notified"
    /\ requests' = [requests EXCEPT ![r] =
           [@ EXCEPT !.pc = "returned", !.response = requests[r].lead]]
    /\ UNCHANGED <<llm, api_key, upstream, heap, handles, stdout, uuids>>
    /\ UNCHANGED toolVars

NextCapture ==
    \E r \in Requests : Extract(r) \/ Construct(r) \/ Add(r) \/ Notify(r) \/ Return(r)

SpecCapture == InitCapture /\ [][NextCapture]_vars


----------------------------------------------------------------------------
(* leadcaptureagent: callers of LeadRepository.list() *)

\* number of list() calls in a run
MaxSnapshots == 2

\* LeadRepository.list returning self._leads itself
RepositoryListAlias(h) == [heap |-> h, ref |-> 1]

\* LeadRepository.list: list(self._leads) is a new list object with the
\* items of self._leads; ref is the object the caller gets
RepositoryList(h) == [heap |-> Append(h, h[1]), ref |-> Len(h) + 1]

\* a caller calls list() and keeps the result; seen records the contents of
\* the store at the call, mutated that the caller has changed its list
ListLeads ==
    /\ Len(handles) < MaxSnapshots
    /\ heap' = RepositoryList(heap).heap
    /\ handles' = Append(handles, [ref |-> RepositoryList(heap).ref, seen |-> repo_leads,
                                   mutated |-> FALSE])
    /\ UNCHANGED <<llm, api_key, upstream, requests, stdout, uuids>>
    /\ UNCHANGED toolVars

\* an item a caller puts into its list
ForeignLead ==
    [id |-> 0, full_name |-> <<>>, email |-> <<>>, phone |-> <<>>, source |-> manual]

\* a caller appends to the list it holds, or removes its last item
CallerMutates(i) ==
    /\ i \in DOMAIN handles
    /\ ~handles[i].mutated
    /\ \/ heap' = [heap EXCEPT ![handles[i].ref] = Append(@, ForeignLead)]
       \/ /\ heap[handles[i].ref] # <<>>
          /\ heap' = [heap EXCEPT ![handles[i].ref] = SubSeq(@, 1, Len(@) - 1)]
    /\ handles' = [handles EXCEPT ![i] = [@ EXCEPT !.mutated = TRUE]]
    /\ UNCHANGED <<llm, api_key, upstream, requests, stdout, uuids>>
    /\ UNCHANGED toolVars

\* app.main as it is: BedrockLLMClient; the upstream answers the first
\* request with an object, with a text that is no JSON, or not at all
InitStore ==
    /\ InitCapture
    /\ llm = "BedrockLLMClient"
    /\ upstream.first \in {Content("bare", BaselineObject), Content("bare", PlainText),
                           Content("fence_json", BaselineObject), CallError}

NextStore ==
    \/ NextCapture
    \/ ListLeads
    \/ \E i \in 1..MaxSnapshots : CallerMutates(i)

SpecStore == InitStore /\ [][NextStore]_vars


----------------------------------------------------------------------------
(* Properties of the capture flow.  HasExtracted(r): extract_lead_fields   *)
(* has returned to capture for request r.  HasLead(r): capture has         *)
(* constructed the lead of request r.                                      *)

HasExtracted(r) == requests[r].pc \in {"extracted", "constructed", "added", "notified", "returned"}

HasLead(r) == requests[r].pc \in {"constructed", "added", "notified", "returned"}

InStore(r) == requests[r].pc \in {"added", "notified", "returned"}

\* the value is missing, null, empty or made of whitespace only
C15_Blank(v) ==
    \/ v \in {ABSENT, PyNone}
    \/ v.t = "str" /\ \A i \in DOMAIN v.v : v.v[i] \in Whitespace

\* the source the upstream model gave for request r, ABSENT when there is
\* no upstream object (MockLLMClient, or an answer that holds none)
C15_UpstreamSource(r) ==
    IF requests[r].data.t = "dict" THEN requests[r].data.v.source ELSE ABSENT

\* C15: whenever extract_lead_fields of LLMClient, BedrockLLMClient or
\* MockLLMClient returns, the result is a mapping with exactly the keys
\* full_name, email, phone, source, every value is a string, and source is
\* "manual" when the upstream value is absent or blank.
C15_ExtractedShape ==
    \A r \in Requests :
        HasExtracted(r) =>
            LET d == requests[r].extracted
            IN /\ d.t = "dict"
               /\ DOMAIN d.v = {"full_name", "email", "phone", "source"}
               /\ \A k \in DOMAIN d.v : d.v[k].t = "str"
               /\ C15_Blank(C15_UpstreamSource(r)) => d.v.source.v = manual

\* a model-backed adapter has returned on an upstream source of whitespace
C15_Witness ==
    \E r \in Requests :
        /\ HasExtracted(r)
        /\ llm \in {"LLMClient", "BedrockLLMClient"}
        /\ C15_UpstreamSource(r) = PyStr(source_blank)
        /\ requests[r].extracted.v.source = PyStr(manual)

\* the answer is a text that holds no JSON object
C16_NoObject(resp) == resp.kind = "content" /\ resp.body.t \in {"text", "broken", "list"}

\* the answers to request r cannot be parsed as a JSON object: for
\* BedrockLLMClient the one answer, for LLMClient the first and the retry
C16_Unparseable(r) ==
    \/ llm = "BedrockLLMClient" /\ C16_NoObject(requests[r].input.first)
    \/ /\ llm = "LLMClient"
       /\ api_key
       /\ C16_NoObject(requests[r].input.first)
       /\ C16_NoObject(requests[r].input.second)

\* C16: when the upstream answer cannot be parsed as a JSON object (after
\* the one retry), the model-backed adapter fails with an extraction error
\* and never returns a record with all fields empty, so the capture request
\* fails and no empty lead is stored.
C16_UnparseableFails ==
    \A r \in Requests :
        (requests[r].pc # "waiting" /\ C16_Unparseable(r)) =>
            /\ requests[r].pc = "failed"
            /\ requests[r].extracted = PyNone

\* the number of '@' in the string
C17_AtCount(e) == Cardinality({i \in DOMAIN e : e[i] = "@"})

\* local@domain.tld: no whitespace, one '@', a dot after it
C17_Shape(e) ==
    /\ C17_AtCount(e) = 1
    /\ \A i \in DOMAIN e : e[i] \notin Whitespace
    /\ \E at, dot \in DOMAIN e : e[at] = "@" /\ e[dot] = "." /\ at < dot

C17_Trimmed(e) == e = <<>> \/ (e[1] \notin Whitespace /\ e[Len(e)] \notin Whitespace)

C17_LowerCase(e) == \A i \in DOMAIN e : e[i] \notin Range(UpperChars)

\* C17: every lead that capture constructs has an email that is empty or
\* trimmed, lower-case and of the shape local@domain.tld, a phone made of
\* digits only, and a source that is neither empty nor whitespace ("manual"
\* when the extracted source is absent or blank).  A malformed extracted
\* email does not make capture fail: the lead gets the email "".
C17_StoredLeadShape ==
    \A r \in Requests :
        /\ HasLead(r) =>
               LET lead == requests[r].lead
                   raw == requests[r].extracted.v.email.v
               IN /\ lead.email = <<>>
                     \/ (C17_Trimmed(lead.email) /\ C17_LowerCase(lead.email)
                             /\ C17_Shape(lead.email))
                  /\ \A i \in DOMAIN lead.phone : lead.phone[i] \in Range(DecimalDigits)
                  /\ \E i \in DOMAIN lead.source : lead.source[i] \notin Whitespace
                  /\ C15_Blank(C15_UpstreamSource(r)) => lead.source = manual
                  /\ ~C17_Shape(raw) => lead.email = <<>>
        /\ requests[r].pc = "failed" => requests[r].extracted = PyNone
        /\ InStore(r) => \E i \in DOMAIN repo_leads : repo_leads[i] = requests[r].lead

\* a lead whose extracted email has two '@' is in the store with email ""
C17_Witness ==
    \E r \in Requests :
        /\ InStore(r)
        /\ requests[r].extracted.v.email = PyStr(email_two_at)
        /\ requests[r].lead.email = <<>>
        /\ requests[r].lead.phone = phone_plain


\* s is an initial part of t
C18_IsPrefix(s, t) == Len(s) <= Len(t) /\ \A i \in DOMAIN s : s[i] = t[i]

\* the store holds one entry for each capture that reached add, no other
\* entry, and no identifier twice
C18_OnePerCapture ==
    /\ Len(repo_leads) = Cardinality({r \in Requests : InStore(r)})
    /\ \A r \in Requests :
           InStore(r) => \E i \in DOMAIN repo_leads : repo_leads[i] = requests[r].lead
    /\ \A i, j \in DOMAIN repo_leads : repo_leads[i].id = repo_leads[j].id => i = j

\* C18: the store is append-only.  It holds exactly one lead per successful
\* capture, in the order of the add calls, with no deduplication (two
\* captures of the same text give two leads with different identifiers); no
\* step removes an entry or changes a stored lead.
C18_AppendOnly ==
    [][/\ C18_OnePerCapture'
       /\ C18_IsPrefix(repo_leads, repo_leads')
       /\ \A r \in Requests :
              (requests[r].pc = "constructed" /\ requests'[r].pc = "added") =>
                  repo_leads' = Append(repo_leads, requests[r].lead)]_vars

\* two captures of the same text have returned: two stored leads equal in
\* every field but the identifier
C18_Witness ==
    /\ \A r \in {1, 2} : requests[r].pc = "returned"
    /\ requests[1].input = requests[2].input
    /\ Len(repo_leads) >= 2
    /\ [repo_leads[1] EXCEPT !.id = 0] = [repo_leads[2] EXCEPT !.id = 0]
    /\ repo_leads[1].id # repo_leads[2].id

\* C19: list() returns a snapshot copy.  The returned sequence equals the
\* store contents at the call; a later add() does not change a sequence
\* returned earlier; adding to or removing from a returned sequence does not
\* change the store, hence not what later list() calls return.
C19_SnapshotCopy ==
    [][/\ Len(handles') > Len(handles) =>
              /\ heap'[handles'[Len(handles')].ref] = repo_leads
              /\ repo_leads' = repo_leads
       /\ repo_leads' # repo_leads =>
              \A i \in DOMAIN handles : heap'[handles[i].ref] = heap[handles[i].ref]
       /\ \A i \in DOMAIN handles :
              /\ (~handles[i].mutated /\ handles'[i].mutated) => repo_leads' = repo_leads
              /\ ~handles'[i].mutated => heap'[handles'[i].ref] = handles'[i].seen]_vars

\* a list taken from a store of one lead is unchanged after a second add,
\* and another list was changed by its caller with the store left alone
C19_Witness ==
    /\ Len(repo_leads) = 2
    /\ \E i, j \in DOMAIN handles :
           /\ ~handles[i].mutated
           /\ Len(heap[handles[i].ref]) = 1
           /\ handles[j].mutated
           /\ heap[handles[j].ref] # handles[j].seen
    /\ \A r \in Requests : requests[r].pc = "returned"


\* the first answer to request r is a call error or a content that is not
\* JSON as a whole
C21_FirstFailed(r) ==
    LET first == requests[r].input.first
    IN \/ first.kind = "error"
       \/ first.wrap # "bare"
       \/ first.body.t \in {"text", "broken"}

\* C21: one call of the model-backed extract_lead_fields invokes the
\* upstream model at most twice; the second invocation is made only after
\* the first one failed and without strict-JSON mode, and a failure of the
\* second one ends the call.  With the credential missing the call fails
\* before any invocation.
C21_AtMostOneRetry ==
    \A r \in Requests :
        (requests[r].pc # "waiting" /\ llm \in {"LLMClient", "BedrockLLMClient"}) =>
            LET calls == requests[r].calls
            IN /\ Len(calls) <= 2
               /\ Len(calls) = 2 =>
                      /\ C21_FirstFailed(r)
                      /\ calls[1] = "json_object"
                      /\ calls[2] = "free_form"
               /\ (Len(calls) = 2 /\ requests[r].input.second.kind = "error") =>
                      requests[r].pc = "failed"
               /\ (llm = "LLMClient" /\ ~api_key) =>
                      (calls = <<>> /\ requests[r].pc = "failed")
               /\ llm = "BedrockLLMClient" => Len(calls) = 1

\* both invocations of LLMClient raised: two calls, then the failure
C21_Witness ==
    \E r \in Requests :
        /\ llm = "LLMClient"
        /\ requests[r].pc = "failed"
        /\ requests[r].input.first = CallError
        /\ requests[r].input.second = CallError
        /\ requests[r].calls = <<"json_object", "free_form">>


\* C22: the result of make_qualification_decision does not depend on
\* require_human_review_threshold: the call on the same score with any other
\* threshold gives the same status, requires_human_review,
\* human_review_reason and next_steps.
C22_ThresholdIgnored ==
    Decided =>
        \A th \in Thresholds :
            LET other == make_qualification_decision(score, th, decision.qualified_at)
            IN /\ other.status = decision.status
               /\ other.requires_human_review = decision.requires_human_review
               /\ other.human_review_reason = decision.human_review_reason
               /\ other.next_steps = decision.next_steps

\* a score of 67, between the two thresholds, decided with the threshold 70
C22_Witness ==
    /\ Decided
    /\ threshold = 70
    /\ score.total_score = 67
    /\ score.confidence = "high"
    /\ decision.requires_human_review


\* the number of "EVENT: lead.created" lines that carry the identifier id
C23_Notifications(id) == Cardinality({i \in DOMAIN stdout : stdout[i] = id})

\* the positions of capture in the order of the claim; "failed" is the
\* exception leaving capture and create_lead
C23_StepOrder ==
    {<<"waiting", "extracted">>, <<"waiting", "failed">>, <<"extracted", "constructed">>,
     <<"constructed", "added">>, <<"added", "notified">>, <<"notified", "returned">>}

C23_State ==
    /\ \A r \in Requests :
        /\ HasLead(r) =>
               /\ C23_Notifications(requests[r].lead.id)
                      = (IF requests[r].pc \in {"notified", "returned"} THEN 1 ELSE 0)
               /\ requests[r].pc \in {"notified", "returned"} =>
                      \E i \in DOMAIN repo_leads : repo_leads[i] = requests[r].lead
               /\ requests[r].pc = "returned" => requests[r].response = requests[r].lead
        /\ requests[r].pc = "failed" =>
               /\ requests[r].error # "none"
               /\ requests[r].lead = PyNone
               /\ requests[r].response = PyNone
    /\ Len(repo_leads) = Cardinality({q \in Requests : InStore(q)})
    /\ Len(stdout) = Cardinality({q \in Requests : requests[q].pc \in {"notified", "returned"}})

\* C23: capture runs extraction, normalization and construction, store
\* append, notification, return in this order; the notification is printed
\* once per successful capture and only when the lead is in the store.  When
\* extraction raises, the error reaches the caller, nothing is appended and
\* nothing is printed.
C23_CaptureOrder ==
    [][/\ C23_State'
       /\ \A r \in Requests :
              /\ requests'[r].pc # requests[r].pc =>
                     <<requests[r].pc, requests'[r].pc>> \in C23_StepOrder
              /\ (requests[r].pc = "waiting" /\ requests'[r].pc = "failed") =>
                     (repo_leads' = repo_leads /\ stdout' = stdout)]_vars

\* one capture has returned after its notification, another has failed in
\* extraction: one stored lead, one line printed
C23_Witness ==
    /\ \E r \in Requests :
           requests[r].pc = "returned" /\ stdout = <<requests[r].lead.id>>
    /\ \E r \in Requests : requests[r].pc = "failed" /\ requests[r].error = "RuntimeError"
    /\ Len(repo_leads) = 1


\* every request has left capture: it returned its lead or raised
C24_AllFinished == \A r \in Requests : requests[r].pc \in {"returned", "failed"}

\* C24: with capture requests running concurrently against the one
\* repository no update is lost or duplicated: once all have finished the
\* store holds exactly one entry for each request that returned, and what
\* each list() call in between returned is an initial part of the final
\* contents.
C24_NoLostUpdate ==
    /\ \A i \in DOMAIN handles : C18_IsPrefix(handles[i].seen, repo_leads)
    /\ C24_AllFinished =>
           /\ Len(repo_leads) = Cardinality({r \in Requests : requests[r].pc = "returned"})
           /\ \A r \in Requests :
                  requests[r].pc = "returned" =>
                      Cardinality({i \in DOMAIN repo_leads :
                                       repo_leads[i] = requests[r].lead}) = 1

\* two requests interleaved: the lead constructed second was added first,
\* and a list() call between the two adds saw one lead
C24_Witness ==
    /\ C24_AllFinished
    /\ Len(repo_leads) = 2
    /\ repo_leads[1].id = 2
    /\ repo_leads[2].id = 1
    /\ \E i \in DOMAIN handles : Len(handles[i].seen) = 1


\* C25: total_score is always between 30 and 95, and a lead with a budget
\* value present scores at least 40; hence a decision on a computed score is
\* not_qualified only for a lead with no budget.
C25_TotalRange ==
    /\ Scored =>
           /\ score.total_score >= 30
           /\ score.total_score <= 95
           /\ C8_BudgetPresent => score.total_score >= 40
    /\ (Decided /\ decision.status = "not_qualified") => ~C8_BudgetPresent

\* a lead with no budget, the source organic and no years_in_city: 30, not
\* qualified
C25_Witness ==
    /\ Decided
    /\ lead_data.budget = ABSENT
    /\ score.total_score = 30
    /\ decision.status = "not_qualified"

\* C26: calculate_qualification_score never gives more than 2 concerns, so
\* in a decision on a computed score human review is never required by the
\* count of concerns alone and the reason "Multiple concerns identified" is
\* never given.
C26_AtMostTwoConcerns ==
    /\ Scored => Len(score.concerns) <= 2
    /\ Decided =>
           /\ decision.human_review_reason # "Multiple concerns identified"
           /\ decision.requires_human_review =>
                  \/ decision.status = "needs_review"
                  \/ score.confidence = "low"
                  \/ (score.total_score >= 60 /\ score.total_score <= 70)

\* a decision on a score with both concerns
C26_Witness ==
    /\ Decided
    /\ score.concerns = <<"Budget may be insufficient", "No phone number provided">>
    /\ decision.requires_human_review

\* C27: whenever make_qualification_decision requires human review it gives
\* a reason, except in exactly one case: total_score 70 with confidence
\* "high" and at most 2 concerns, where the status is qualified, review is
\* required and the reason is none.
C27_ReasonUnlessSeventy ==
    Decided =>
        LET exception == /\ score.total_score = 70
                         /\ score.confidence = "high"
                         /\ Len(score.concerns) <= 2
        IN /\ (decision.requires_human_review /\ ~exception) =>
                  decision.human_review_reason
                      \in {"Low confidence due to insufficient data",
                           "Borderline qualification score", "Multiple concerns identified"}
           /\ exception =>
                  /\ decision.status = "qualified"
                  /\ decision.requires_human_review
                  /\ decision.human_review_reason = "None"

\* the score of 70 with high confidence has been decided
C27_Witness ==
    /\ Decided
    /\ score.total_score = 70
    /\ score.confidence = "high"
    /\ Len(score.concerns) = 2
    /\ decision.requires_human_review
    /\ decision.human_review_reason = "None"

\* the budget is a number below 100000: a non-zero int, or a string whose
\* digits are decimal and form such a number
C28_ParsesBelow100000 ==
    \/ lead_data.budget.t = "int" /\ lead_data.budget.v # 0 /\ lead_data.budget.v < 100000
    \/ /\ lead_data.budget.t = "str"
       /\ C5_Parses(lead_data.budget.v)
       /\ C5_NumberFromDigits(lead_data.budget.v, 0) < 100000

\* the budget is a non-empty string with no digit in it
C28_NoDigit ==
    /\ lead_data.budget.t = "str"
    /\ lead_data.budget.v # <<>>
    /\ \A i \in DOMAIN lead_data.budget.v : lead_data.budget.v[i] \notin C5_Decimal

\* C28: a non-empty string budget with no digit gets budget_score 15 and not
\* the concern "Budget may be insufficient"; a budget that parses to less
\* than 100000 gets budget_score 10 and that concern; budget_score is one of
\* 0, 10, 15, 20, 25, 30.
C28_UnparsedBudget ==
    Scored =>
        LET insufficient ==
                \E i \in DOMAIN score.concerns : score.concerns[i] = "Budget may be insufficient"
        IN /\ score.budget_score \in {0, 10, 15, 20, 25, 30}
           /\ C28_NoDigit => (score.budget_score = 15 /\ ~insufficient)
           /\ C28_ParsesBelow100000 => (score.budget_score = 10 /\ insufficient)

\* the budget "TBD" has been scored
C28_Witness ==
    /\ Scored
    /\ lead_data.budget = PyStr(b_tbd)
    /\ score.budget_score = 15
    /\ score.concerns = <<>>


\* next_steps holds the three fast-track recommendations, in their order,
\* as its last three items
C30_HasFastTrack ==
    /\ Len(decision.next_steps) >= 3
    /\ SubSeq(decision.next_steps, Len(decision.next_steps) - 2, Len(decision.next_steps))
           = <<"Fast-track to sales team", "Schedule property viewing within 48 hours",
               "Assign senior sales agent">>

C30_MentionsFastTrack ==
    \E i \in DOMAIN decision.next_steps : decision.next_steps[i] = "Fast-track to sales team"

C30_LongTermList ==
    <<"Add to long-term nurture campaign", "Send educational content series",
      "Re-evaluate in 3 months">>

\* C30 as stated: on a computed score, status qualified implies next_steps
\* contains the fast-track recommendations, status not_qualified implies
\* next_steps is the long-term nurture list, and next_steps contains
\* "Fast-track to sales team" only with the status qualified.
C30_Original ==
    Decided =>
        /\ decision.status = "qualified" => C30_HasFastTrack
        /\ decision.status = "not_qualified" => decision.next_steps = C30_LongTermList
        /\ C30_MentionsFastTrack => decision.status = "qualified"

\* C30, amended: status qualified implies next_steps contains the fast-track
\* recommendations; status not_qualified implies next_steps is the long-term
\* nurture list, after "Queue for human review within 4 hours" when the
\* confidence is low; next_steps contains "Fast-track to sales team" exactly
\* when total_score >= 70, and then the status is qualified when the
\* confidence is high and needs_review when it is not (a score computed
\* without an enrichment result).
C30_StatusAndNextSteps ==
    Decided =>
        /\ decision.status = "qualified" => C30_HasFastTrack
        /\ decision.status = "not_qualified" =>
               decision.next_steps =
                   IF score.confidence = "low"
                   THEN <<"Queue for human review within 4 hours">> \o C30_LongTermList
                   ELSE C30_LongTermList
        /\ C30_MentionsFastTrack <=> score.total_score >= 70
        /\ C30_MentionsFastTrack =>
               decision.status = (IF score.confidence = "high" THEN "qualified"
                                  ELSE "needs_review")
        /\ (C30_MentionsFastTrack /\ decision.status # "qualified") =>
               ~Truthy(enrichment_data)

\* a score of 70 or more computed with no enrichment result: fast-track
\* steps and the status needs_review
C30_Witness ==
    /\ Decided
    /\ enrichment_data = PyNone
    /\ score.total_score >= 70
    /\ decision.status = "needs_review"
    /\ decision.next_steps[2] = "Fast-track to sales team"


\* C29: qualify_lead reads its status from the response text and returns
\* one of "NOT QUALIFIED", "QUALIFIED", "NEEDS REVIEW"; when the response
\* reports the decision status not_qualified, in the underscore form of
\* make_qualification_decision, the status is "NOT QUALIFIED", and it is
\* "QUALIFIED" only when the response reports the decision qualified.
C29_StatusFromText ==
    pc = "responded" =>
        /\ qualify_result.status \in {"NOT QUALIFIED", "QUALIFIED", "NEEDS REVIEW"}
        /\ Contains(response_str, text_not_qualified) => qualify_result.status = "NOT QUALIFIED"
        /\ qualify_result.status = "QUALIFIED" => decision.status = "qualified"

====
